---- MODULE Spec2Model ----
(***************************************************************************)
(* Quote manager CLI: a persistent table of quote rows and the commands    *)
(* import_quotes, generate, add, list_quotes, list_categories and          *)
(* list_authors that read and extend it.  One action is one invocation of  *)
(* a command, from option parsing to the closing of the store session.     *)
(*                                                                         *)
(* Strings are sequences of one-character strings, so that str.lower() is  *)
(* computed character by character.  Python's None is the value None.      *)
(***************************************************************************)
EXTENDS Integers, Sequences, FiniteSets, TLC

VARIABLES
    store,          \* the rows of table "quotes": records [id, category, author, quote]
    cmd,            \* the invocation that ran last: command name and its options
    out,            \* the results the invocation wrote with click.echo, in order
    trace,          \* the store / random / log calls the invocation made, in order
    quotes,         \* local `quotes` of generate and list_quotes right after the query
    chosen,         \* the rows drawn by random.choice / random.choices
    existing_ids,   \* local `existing_ids` of import_quotes
    record_list,    \* local `record_list` of import_quotes
    no_data,        \* local `no_data` of import_quotes
    error_log,      \* the records the invocation handed to error_logger.error, in order
    returned        \* outcome of a direct call of a utils function: error raised or value

vars == <<store, cmd, out, trace, quotes, chosen, existing_ids, record_list, no_data,
          error_log, returned>>

(***************************************************************************)
(* Bounds of the model.                                                    *)
(***************************************************************************)
MaxRows == 2        \* rows the store may hold
MaxBatch == 2       \* records in one source file
MaxKeys == 2        \* category keys in one source file

(***************************************************************************)
(* Strings and str.lower().                                                *)
(***************************************************************************)
None == <<"None">>

UpperCase == <<"A","B","C","D","E","F","G","H","I","J","K","L","M",
               "N","O","P","Q","R","S","T","U","V","W","X","Y","Z">>
LowerCase == <<"a","b","c","d","e","f","g","h","i","j","k","l","m",
               "n","o","p","q","r","s","t","u","v","w","x","y","z">>

LowerChar(c) ==
    IF \E i \in 1..Len(UpperCase) : UpperCase[i] = c
    THEN LowerCase[CHOOSE i \in 1..Len(UpperCase) : UpperCase[i] = c]
    ELSE c

\* a str.lower that changes nothing
Lower_Identity(s) == s

Lower(s) == [i \in 1..Len(s) |-> LowerChar(s[i])]

\* Python truthiness of an Optional[str]: None and "" are false.
Truthy(s) == s # None /\ s # <<>>

(***************************************************************************)
(* Input alphabets.                                                        *)
(***************************************************************************)
Categories == {<<>>, <<"W">>, <<"w">>, <<"l">>}
Authors == {<<>>, <<"A">>, <<"a">>, <<"b">>}
Quotes == {<<>>, <<"Q">>, <<"q">>}

(***************************************************************************)
(* Results and calls.                                                      *)
(***************************************************************************)
Result(status, message, data) == [status |-> status, message |-> message, data |-> data]

\* no file: the invocation before this one imported nothing
NoFile == [path |-> <<>>, exists |-> FALSE, content |-> <<>>]

NoCmd ==
    [name |-> "none", category |-> None, author |-> None, quote |-> None, file |-> None,
     data |-> None, fault |-> "none", previous |-> NoFile, data_type |-> "none", db_type |-> "none"]

\* nothing was called directly
NoReturn == [raised |-> "", value |-> None, argument |-> None]

Project(row) == [quote |-> row.quote, category |-> row.category, author |-> row.author]

DbError(e) == Result("error", "Error occurred during database operation: {e}", <<e>>)

\* the error import_quotes echoes: its f-string runs over a continued line
ImportEchoError(e) ==
    Result("error", "Error occurred during                 database operation: {e}", <<e>>)

\* get_db without its `finally`: the session is closed on the normal path only
get_db_NoFinally(body, raised) ==
    <<"open">> \o body \o (IF raised THEN <<"raise">> ELSE <<"close">>)

\* the calls of `with get_db() as db: body`: the session is closed on every path,
\* an exception of the body goes on to the caller once the session is closed
get_db(body, raised) ==
    <<"open">> \o body \o <<"close">> \o (IF raised THEN <<"raise">> ELSE <<>>)

(***************************************************************************)
(* The store: SQLite table with an INTEGER PRIMARY KEY.                    *)
(***************************************************************************)
Ids(db) == {r.id : r \in db}

MaxId(db) == CHOOSE m \in Ids(db) : \A i \in Ids(db) : i <= m

\* an id generator that hands out the highest id in use again
NextId_Reuse(db) == IF db = {} THEN 1 ELSE MaxId(db)

\* an id generator that always hands out 1
NextId_One(db) == 1

\* id SQLite gives a row inserted without one: max(rowid) + 1, 1 in an empty table
NextId(db) == IF db = {} THEN 1 ELSE MaxId(db) + 1

DistinctCategories(db) == {r.category : r \in db}
DistinctAuthors(db) == {r.author : r \in db}

FilterCategory(db, category) == {r \in db : r.category = category}
FilterAuthor(db, author) == {r \in db : r.author = author}
FilterBoth(db, category, author) == {r \in db : r.category = category /\ r.author = author}

Init ==
    /\ store = {}
    /\ cmd = NoCmd
    /\ out = <<>>
    /\ trace = <<>>
    /\ quotes = {}
    /\ chosen = <<>>
    /\ existing_ids = {}
    /\ record_list = <<>>
    /\ no_data = 0
    /\ error_log = <<>>
    /\ returned = NoReturn

(***************************************************************************)
(* Python dicts, as sequences of <<key, value>> pairs in insertion order.  *)
(***************************************************************************)
DictHas(d, k) == \E i \in 1..Len(d) : d[i][1] = k

DictGet(d, k) == d[CHOOSE i \in 1..Len(d) : d[i][1] = k][2]

\* d[k] = v: an existing key keeps its position
DictSet(d, k, v) ==
    IF DictHas(d, k)
    THEN [i \in 1..Len(d) |-> IF d[i][1] = k THEN <<k, v>> ELSE d[i]]
    ELSE Append(d, <<k, v>>)

\* d1 == d2: same keys with the same values, whatever the order
DictEq(d1, d2) ==
    /\ \A i \in 1..Len(d1) : \E j \in 1..Len(d2) : d1[i] = d2[j]
    /\ \A j \in 1..Len(d2) : \E i \in 1..Len(d1) : d1[i] = d2[j]

\* a Python int held in a dict
PyInt(n) == <<"int", n>>

\* isinstance(v, int)
IsInt(v) == Len(v) = 2 /\ v[1] = "int"

QUOTE == <<"q","u","o","t","e">>
AUTHOR == <<"a","u","t","h","o","r">>
CATEGORY == <<"c","a","t","e","g","o","r","y">>
ID == <<"i","d">>

(***************************************************************************)
(* Source files.                                                           *)
(***************************************************************************)
JsonPath == <<"q",".","j","s","o","n">>
TextPath == <<"q",".","t","x","t">>
UpperPath == <<"q",".","J","S","O","N">>

FileKeys == {<<"W">>, <<"w">>, <<"l">>}
FileRecords == {<< <<QUOTE, q>>, <<AUTHOR, a>> >> : q \in {<<"Q">>}, a \in {<<"A">>, <<"b">>}}

RecordLists == UNION {[1..n -> FileRecords] : n \in 0..MaxBatch}

RECURSIVE CountRecords(_)
CountRecords(data) ==
    IF data = <<>> THEN 0 ELSE Len(Head(data)[2]) + CountRecords(Tail(data))

\* a JSON object: category keys, pairwise distinct, each with its list of records
Contents ==
    {data \in UNION {[1..n -> FileKeys \X RecordLists] : n \in 0..MaxKeys} :
        /\ \A i, j \in 1..Len(data) : i # j => data[i][1] # data[j][1]
        /\ CountRecords(data) <= MaxBatch}

\* the values of the optional `id` field of a record: numbers and a string
IdValues == {PyInt(n) : n \in 1..MaxBatch} \cup {<<"1">>}

\* one record: without an `id` field, under capitalised keys, and with each
\* value of an `id` field
IdRecords ==
    {<< <<QUOTE, <<"Q">> >>, <<AUTHOR, <<"A">> >> >>,
     << <<<<"Q","u","o","t","e">>, <<"Q">> >>, <<<<"A","u","t","h","o","r">>, <<"A">> >> >>}
    \cup {<< <<ID, v>>, <<QUOTE, <<"Q">> >>, <<AUTHOR, <<"A">> >> >> : v \in IdValues}

\* JSON objects of one category whose records may carry an `id` field
IdContents ==
    {<< <<category, records>> >> :
        category \in {<<"W">>},
        records \in UNION {[1..n -> IdRecords] : n \in 1..MaxBatch}}

\* a record and the same record without its `author`
PartialRecords ==
    {<< <<QUOTE, <<"Q">> >>, <<AUTHOR, <<"A">> >> >>, << <<QUOTE, <<"Q">> >> >>}

\* JSON objects of one category in which a record lacks a field
PartialContents ==
    {<< <<category, records>> >> :
        category \in {<<"W">>},
        records \in {l \in UNION {[1..n -> PartialRecords] : n \in 1..MaxBatch} :
                        \E i \in 1..Len(l) : Len(l[i]) = 1}}

\* what a file that is not named *.json holds
TextContents == {<<>>, << << <<"W">>, << << <<QUOTE, <<"Q">> >>, <<AUTHOR, <<"A">> >> >> >> >> >>}

Files ==
    [path : {JsonPath}, exists : {TRUE},
     content : Contents \cup IdContents \cup PartialContents]
    \cup [path : {TextPath, UpperPath}, exists : {TRUE}, content : TextContents]
    \cup [path : {JsonPath, TextPath, UpperPath}, exists : {FALSE}, content : {<<>>}]

(***************************************************************************)
(* utils.load_data and utils.lower_data                                    *)
(***************************************************************************)
\* a suffix test that ignores letter case
EndsWith_IgnoreCase(s, suffix) ==
    /\ Len(s) >= Len(suffix)
    /\ Lower(SubSeq(s, Len(s) - Len(suffix) + 1, Len(s))) = suffix

EndsWith(s, suffix) ==
    /\ Len(s) >= Len(suffix)
    /\ SubSeq(s, Len(s) - Len(suffix) + 1, Len(s)) = suffix

RECURSIVE LowerItem_Values(_, _)
\* the inner loop without key.lower()
LowerItem_Values(record, item) ==
    IF record = <<>> THEN item
    ELSE LowerItem_Values(Tail(record),
                          DictSet(item, Head(record)[1], Lower(Head(record)[2])))

RECURSIVE LowerItem(_, _)
\* the dict `item` after the keys of `record` are added to it
LowerItem(record, item) ==
    IF record = <<>> THEN item
    ELSE LowerItem(Tail(record),
                   DictSet(item, Lower(Head(record)[1]), Lower(Head(record)[2])))

RECURSIVE LowerCategories(_, _)
LowerCategories(data_copy, new_data) ==
    IF data_copy = <<>> THEN new_data
    ELSE LET category == Head(data_copy)[1]
             records == Head(data_copy)[2]
             item_list == [i \in 1..Len(records) |-> LowerItem(records[i], <<>>)]
         IN LowerCategories(Tail(data_copy),
                            IF records = <<>> THEN new_data
                            ELSE DictSet(new_data, Lower(category), item_list))

lower_data(data_copy) == LowerCategories(data_copy, <<>>)

\* value.lower() is reached for a value that has no such method
LowerRaises(data_copy) ==
    \E c \in 1..Len(data_copy) : \E r \in 1..Len(data_copy[c][2]) :
        \E k \in 1..Len(data_copy[c][2][r]) : IsInt(data_copy[c][2][r][k][2])

\* load_data with its two tests in the other order
LoadError_FormatFirst(file) ==
    IF ~EndsWith(file.path, <<".","j","s","o","n">>)
    THEN "Invalid file format. Only JSON files are allowed"
    ELSE IF ~file.exists THEN "Invalid file path provided, File may not exist"
         ELSE IF LowerRaises(file.content)
              THEN "'int' object has no attribute 'lower'"
              ELSE ""

\* the error load_data raises, or "" when it returns
LoadError(file) ==
    IF ~file.exists THEN "Invalid file path provided, File may not exist"
    ELSE IF ~EndsWith(file.path, <<".","j","s","o","n">>)
         THEN "Invalid file format. Only JSON files are allowed"
         ELSE IF LowerRaises(file.content)
              THEN "'int' object has no attribute 'lower'"
              ELSE ""

load_data(file) == lower_data(file.content)

(***************************************************************************)
(* utils.query_existing_data                                               *)
(***************************************************************************)
RECURSIVE Flatten(_)
\* record_list after the first loop: every record with its category attached
Flatten(data) ==
    IF data = <<>> THEN <<>>
    ELSE LET category == Head(data)[1]
             category_quotes == Head(data)[2]
         IN [i \in 1..Len(category_quotes) |->
                DictSet(category_quotes[i], CATEGORY, category)]
            \o Flatten(Tail(data))

\* list.index: 0-based position of the first element equal to record
Index(list, record) ==
    (CHOOSE i \in 1..Len(list) :
        /\ DictEq(list[i], record)
        /\ \A j \in 1..(i - 1) : ~DictEq(list[j], record)) - 1

RECURSIVE AssignIds(_, _)
\* record_list after the second loop has run from position p on
AssignIds(list, p) ==
    IF p > Len(list) THEN list
    ELSE AssignIds([list EXCEPT ![p] = DictSet(list[p], ID, PyInt(Index(list, list[p]) + 1))],
                   p + 1)

RecordList(data) == AssignIds(Flatten(data), 1)

RecordIds(list) == [i \in 1..Len(list) |-> DictGet(list[i], ID)[2]]

\* an existence query that finds no row
ExistingData_None(db, record_ids) == {}

ExistingData(db, record_ids) ==
    {r \in db : \E i \in 1..Len(record_ids) : record_ids[i] = r.id}

\* a resolver that reports no id as existing
ExistingIds_None(db, record_ids) == {}

ExistingIds(db, record_ids) == Ids(ExistingData(db, record_ids))

query_existing_data(data, db) ==
    LET record_list_ == RecordList(data)
        record_ids == RecordIds(record_list_)
    IN [existing_data |-> ExistingData(db, record_ids),
        existing_ids |-> ExistingIds(db, record_ids),
        record_list |-> record_list_,
        record_ids |-> record_ids]

(***************************************************************************)
(* import_quotes --file_path                                               *)
(***************************************************************************)
NewQuote(record) ==
    [id |-> DictGet(record, ID)[2], category |-> DictGet(record, CATEGORY),
     author |-> DictGet(record, AUTHOR), quote |-> DictGet(record, QUOTE)]

\* a loop that hands no record to db.add
Added_None(list, ids) == {}

\* the loop without its `not in existing_ids` test
Added_All(list, ids) == 1..Len(list)

\* positions of record_list whose record the loop hands to db.add
Added(list, ids) == {i \in 1..Len(list) : DictGet(list[i], ID)[2] \notin ids}

\* the rows pending in the session when the loop ends
Pending(list, ids) == {NewQuote(list[i]) : i \in Added(list, ids)}

\* db.commit(): the primary key rejects a pending id that is in the table or
\* is pending twice
CommitFails(db, list, ids) ==
    \/ \E i \in Added(list, ids) : DictGet(list[i], ID)[2] \in Ids(db)
    \/ \E i, j \in Added(list, ids) :
            i # j /\ DictGet(list[i], ID)[2] = DictGet(list[j], ID)[2]

\* a session block that commits after every add
ImportCalls_CommitEach(count) ==
    <<"query">> \o [i \in 1..(2 * count) |-> IF i % 2 = 1 THEN "add" ELSE "commit"]

\* the store calls of the session block: the existence query, one add for each
\* new record, the commit
ImportCalls(count) == <<"query">> \o [i \in 1..count |-> "add"] \o <<"commit">>

ImportCmd(file) == [NoCmd EXCEPT !.name = "import_quotes", !.file = file]

ImportRejected(file) ==
    /\ cmd = NoCmd
    /\ LoadError(file) # ""
    /\ cmd' = ImportCmd(file)
    /\ out' = <<ImportEchoError(LoadError(file))>>
    /\ error_log' = <<DbError(LoadError(file))>>
    /\ trace' = get_db(<<>>, TRUE) \o <<"echo", "error">>
    /\ UNCHANGED <<store, quotes, chosen, existing_ids, record_list, no_data, returned>>

\* a session that writes every added row through at once
Persisted_Autocommit(db, pending, committed) == db \cup pending

\* the table when the session ends: the rows handed to db.add reach it only
\* through a commit that succeeded (autocommit=False, autoflush=False)
Persisted(db, pending, committed) == IF committed THEN db \cup pending ELSE db

\* the first record the loop builds a Quote from that lacks a field, 0 when
\* there is none: record["author"] or record["quote"] raises KeyError there
FirstKeyError(list, ids) ==
    LET bad == {i \in Added(list, ids) :
                    ~DictHas(list[i], AUTHOR) \/ ~DictHas(list[i], QUOTE)}
    IN IF bad = {} THEN 0 ELSE CHOOSE i \in bad : \A j \in bad : i <= j

\* str(e) of that KeyError: `author` is read before `quote`
KeyErrorText(record) == IF ~DictHas(record, AUTHOR) THEN "'author'" ELSE "'quote'"

\* an import that hands every record to db.merge: a row whose id collides is
\* replaced by the candidate
ImportLoaded_Merge(file) ==
    /\ cmd = NoCmd
    /\ LoadError(file) = ""
    /\ file.content \notin PartialContents
    /\ \E data \in {query_existing_data(load_data(file), store)} :
        \E pending \in {Pending(data.record_list, {})} :
            /\ Cardinality(store \cup pending) <= MaxRows
            /\ existing_ids' = data.existing_ids
            /\ record_list' = data.record_list
            /\ no_data' = Len(data.record_list)
            /\ store' = {r \in store : r.id \notin Ids(pending)} \cup pending
            /\ out' = <<Result("success",
                               "{no_data} data imported to database from {file_path}",
                               <<no_data', file.path>>)>>
            /\ error_log' = <<>>
            /\ trace' = get_db(ImportCalls(no_data') \o <<"echo", "info">>, FALSE)
    /\ cmd' = ImportCmd(file)
    /\ UNCHANGED <<quotes, chosen, returned>>

\* load_data returned: the resolver, the insert loop and the commit.  A commit
\* the primary key rejects raises inside the session block: nothing is stored.
ImportSession(file) ==
    /\ LoadError(file) = ""
    /\ \E data \in {query_existing_data(load_data(file), store)} :
        IF FirstKeyError(data.record_list, data.existing_ids) # 0
        THEN \E bad \in {FirstKeyError(data.record_list, data.existing_ids)} :
            /\ existing_ids' = data.existing_ids
            /\ record_list' = data.record_list
            /\ no_data' = Cardinality({i \in Added(data.record_list, data.existing_ids) :
                                            i < bad})
            /\ store' = Persisted(store,
                                   {NewQuote(data.record_list[i]) :
                                        i \in {a \in Added(data.record_list,
                                                           data.existing_ids) : a < bad}},
                                   FALSE)
            /\ out' = <<ImportEchoError(KeyErrorText(data.record_list[bad]))>>
            /\ error_log' = <<DbError(KeyErrorText(data.record_list[bad]))>>
            /\ trace' = get_db(<<"query">> \o [i \in 1..no_data' |-> "add"], TRUE)
                        \o <<"echo", "error">>
        ELSE \E pending \in {Pending(data.record_list, data.existing_ids)} :
            /\ Cardinality(store \cup pending) <= MaxRows
            /\ existing_ids' = data.existing_ids
            /\ record_list' = data.record_list
            /\ no_data' = Cardinality(Added(data.record_list, data.existing_ids))
            /\ IF CommitFails(store, data.record_list, data.existing_ids)
               THEN /\ store' = Persisted(store, pending, FALSE)
                    /\ out' = <<ImportEchoError("IntegrityError")>>
                    /\ error_log' = <<DbError("IntegrityError")>>
                    /\ trace' = get_db(ImportCalls(no_data'), TRUE) \o <<"echo", "error">>
               ELSE /\ store' = Persisted(store, pending, TRUE)
                    /\ out' = <<Result("success",
                                       "{no_data} data imported to database from {file_path}",
                                       <<no_data', file.path>>)>>
                    /\ error_log' = <<>>
                    /\ trace' = get_db(ImportCalls(no_data') \o <<"echo", "info">>, FALSE)
    /\ UNCHANGED <<quotes, chosen, returned>>

ImportLoaded(file) ==
    /\ cmd = NoCmd
    /\ ImportSession(file)
    /\ cmd' = ImportCmd(file)

import_quotes ==
    /\ cmd = NoCmd
    /\ \E file \in Files :
        \/ ImportRejected(file)
        \/ ImportLoaded(file)

(***************************************************************************)
(* add --category --quote --author                                         *)
(***************************************************************************)
\* the test of add without its author conjunct
AddAccepts_NoAuthor(category, quote, author) == quote # <<>> /\ category # <<>>

\* `if quote and category and author`, on options click has accepted
AddAccepts(category, quote, author) == quote # <<>> /\ category # <<>> /\ author # <<>>

MissingArguments ==
    Result("error", "Please provide the required arguments: quote, category and author", <<>>)

AddMissing(category, quote, author) ==
    /\ cmd = NoCmd
    /\ category = None \/ quote = None \/ author = None
    /\ cmd' = [NoCmd EXCEPT !.name = "add", !.category = category,
                            !.quote = quote, !.author = author]
    /\ out' = <<Result("usage", "Missing option", <<>>)>>
    /\ error_log' = <<>>
    /\ trace' = <<>>
    /\ UNCHANGED <<store, quotes, chosen, existing_ids, record_list, no_data, returned>>

AddRow(category, quote, author) ==
    /\ cmd = NoCmd
    /\ category # None /\ quote # None /\ author # None
    /\ AddAccepts(category, quote, author)
    /\ Cardinality(store) < MaxRows
    /\ LET new_quote == [id |-> NextId(store), category |-> Lower(category),
                         author |-> Lower(author), quote |-> Lower(quote)]
       IN /\ store' = store \cup {new_quote}
          /\ out' = <<Result("success, quote added successfully", "",
                             <<Project(new_quote)>>)>>
    /\ cmd' = [NoCmd EXCEPT !.name = "add", !.category = category,
                            !.quote = quote, !.author = author]
    /\ error_log' = <<>>
    /\ trace' = get_db(<<"add", "commit", "echo", "info">>, FALSE)
    /\ UNCHANGED <<quotes, chosen, existing_ids, record_list, no_data, returned>>

AddRejected(category, quote, author) ==
    /\ cmd = NoCmd
    /\ category # None /\ quote # None /\ author # None
    /\ ~AddAccepts(category, quote, author)
    /\ cmd' = [NoCmd EXCEPT !.name = "add", !.category = category,
                            !.quote = quote, !.author = author]
    /\ out' = <<MissingArguments>>
    /\ error_log' = <<MissingArguments>>
    /\ trace' = get_db(<<"echo", "error">>, FALSE)
    /\ UNCHANGED <<store, quotes, chosen, existing_ids, record_list, no_data, returned>>

add ==
    /\ cmd = NoCmd
    /\ \E category \in Categories \cup {None}, quote \in Quotes \cup {None},
       author \in Authors \cup {None} :
        \/ AddMissing(category, quote, author)
        \/ AddRow(category, quote, author)
        \/ AddRejected(category, quote, author)

(***************************************************************************)
(* generate [--category] [--author]                                        *)
(***************************************************************************)
CategoryAuthorNotFound(category, author) ==
    Result("error",
           "quotes for category:[{category}] and author:[{author}] are not found in the database",
           <<category, author>>)

CategoryNotFound(category) ==
    Result("error", "quotes for category:[{category}] are not found in the database",
           <<category>>)

AuthorNotFound(author) ==
    Result("error", "quotes by author:[{author}] are not found in the database", <<author>>)

NoQuotesGenerated == Result("error", "No quotes could be generated", <<>>)

\* the branch of generate that runs for the given options
GenerateBranch(category, author) ==
    IF Truthy(category) /\ Truthy(author) THEN "category_author"
    ELSE IF Truthy(category) THEN "category"
    ELSE IF Truthy(author) THEN "author"
    ELSE "all"

\* generate whose category-and-author query drops the author condition
GenerateQuery_CategoryOnly(db, category, author) ==
    CASE GenerateBranch(category, author) \in {"category_author", "category"} ->
            FilterCategory(db, Lower(category))
      [] GenerateBranch(category, author) = "author" ->
            FilterAuthor(db, Lower(author))
      [] OTHER -> db

\* the rows the query of the branch returns
GenerateQuery(db, category, author) ==
    CASE GenerateBranch(category, author) = "category_author" ->
            FilterBoth(db, Lower(category), Lower(author))
      [] GenerateBranch(category, author) = "category" ->
            FilterCategory(db, Lower(category))
      [] GenerateBranch(category, author) = "author" ->
            FilterAuthor(db, Lower(author))
      [] OTHER -> db

\* generate without its existence check
GenerateCheck_Skipped(db, category, author) == <<>>

\* the advisory existence check: the error the branch echoes before its query
GenerateCheck(db, category, author) ==
    CASE GenerateBranch(category, author) = "category_author" ->
            IF Lower(category) \notin DistinctCategories(db)
               \/ Lower(author) \notin DistinctAuthors(db)
            THEN <<CategoryAuthorNotFound(Lower(category), Lower(author))>>
            ELSE <<>>
      [] GenerateBranch(category, author) = "category" ->
            IF Lower(category) \notin DistinctCategories(db)
            THEN <<CategoryNotFound(Lower(category))>>
            ELSE <<>>
      [] GenerateBranch(category, author) = "author" ->
            IF Lower(author) \notin DistinctAuthors(db)
            THEN <<AuthorNotFound(Lower(author))>>
            ELSE <<>>
      [] OTHER -> <<>>

\* an existence check that gates: no query after a not-found report
GenerateCalls_Gated(db, category, author) ==
    (CASE GenerateBranch(category, author) = "category_author" -> <<"query", "query">>
          [] GenerateBranch(category, author) = "all" -> <<>>
          [] OTHER -> <<"query">>)
    \o (IF GenerateCheck(db, category, author) # <<>> THEN <<"echo", "error">>
        ELSE <<"query">>)

\* the calls of the session block up to and including the query
GenerateCalls(db, category, author) ==
    (CASE GenerateBranch(category, author) = "category_author" -> <<"query", "query">>
          [] GenerateBranch(category, author) = "all" -> <<>>
          [] OTHER -> <<"query">>)
    \o (IF GenerateCheck(db, category, author) # <<>> THEN <<"echo", "error">> ELSE <<>>)
    \o <<"query">>

GenerateFound(category, author) ==
    /\ cmd = NoCmd
    /\ GenerateQuery(store, category, author) # {}
    /\ \E quote \in GenerateQuery(store, category, author) :
        /\ chosen' = <<quote>>
        /\ out' = GenerateCheck(store, category, author)
                  \o <<Result("success", "", <<Project(quote)>>)>>
    /\ quotes' = GenerateQuery(store, category, author)
    /\ error_log' = GenerateCheck(store, category, author)
    /\ trace' = get_db(GenerateCalls(store, category, author)
                       \o <<"choice", "echo", "info">>, FALSE)
    /\ cmd' = [NoCmd EXCEPT !.name = "generate", !.category = category, !.author = author]
    /\ UNCHANGED <<store, existing_ids, record_list, no_data, returned>>

\* generate without its `if quotes` test: random.choice raises on the empty list
GenerateEmpty_Samples(category, author) ==
    /\ cmd = NoCmd
    /\ GenerateQuery(store, category, author) = {}
    /\ quotes' = {}
    /\ chosen' = <<>>
    /\ out' = GenerateCheck(store, category, author) \o <<DbError("IndexError")>>
    /\ error_log' = GenerateCheck(store, category, author) \o <<DbError("IndexError")>>
    /\ trace' = get_db(GenerateCalls(store, category, author) \o <<"choice">>, TRUE)
                \o <<"echo", "error">>
    /\ cmd' = [NoCmd EXCEPT !.name = "generate", !.category = category, !.author = author]
    /\ UNCHANGED <<store, existing_ids, record_list, no_data, returned>>

GenerateEmpty(category, author) ==
    /\ cmd = NoCmd
    /\ GenerateQuery(store, category, author) = {}
    /\ quotes' = {}
    /\ chosen' = <<>>
    /\ out' = GenerateCheck(store, category, author) \o <<NoQuotesGenerated>>
    /\ error_log' = GenerateCheck(store, category, author) \o <<NoQuotesGenerated>>
    /\ trace' = get_db(GenerateCalls(store, category, author) \o <<"echo", "error">>, FALSE)
    /\ cmd' = [NoCmd EXCEPT !.name = "generate", !.category = category, !.author = author]
    /\ UNCHANGED <<store, existing_ids, record_list, no_data, returned>>

generate ==
    /\ cmd = NoCmd
    /\ \E category \in Categories \cup {None}, author \in Authors \cup {None} :
        \/ GenerateFound(category, author)
        \/ GenerateEmpty(category, author)

(***************************************************************************)
(* list_quotes [--category] [--author]                                     *)
(***************************************************************************)
K == 5

NoQuotesRetrieved == Result("error", "No quotes could be retrieved in the database", <<>>)

ListBranch(category, author) ==
    IF Truthy(category) /\ author = None THEN "category"
    ELSE IF Truthy(author) /\ category = None THEN "author"
    ELSE IF Truthy(category) /\ Truthy(author) THEN "category_author"
    ELSE "all"

\* list_quotes comparing the options as typed, without lower()
ListQuery_CaseSensitive(db, category, author) ==
    CASE ListBranch(category, author) = "category" -> FilterCategory(db, category)
      [] ListBranch(category, author) = "author" -> FilterAuthor(db, author)
      [] ListBranch(category, author) = "category_author" ->
            FilterBoth(db, category, author)
      [] OTHER -> db

ListQuery(db, category, author) ==
    CASE ListBranch(category, author) = "category" -> FilterCategory(db, Lower(category))
      [] ListBranch(category, author) = "author" -> FilterAuthor(db, Lower(author))
      [] ListBranch(category, author) = "category_author" ->
            FilterBoth(db, Lower(category), Lower(author))
      [] OTHER -> db

\* random.choices(population, k=5) on a non-empty population
Choices(population) == [1..K -> population]

\* list_quotes without its `except Exception`: the IndexError of random.choices
\* leaves the command, nothing is echoed
ListRaises_Escapes(category, author) ==
    /\ cmd = NoCmd
    /\ ListQuery(store, category, author) = {}
    /\ quotes' = {}
    /\ chosen' = <<>>
    /\ out' = <<>>
    /\ error_log' = <<>>
    /\ trace' = get_db(<<"query", "choices">>, TRUE)
    /\ cmd' = [NoCmd EXCEPT !.name = "list_quotes", !.category = category, !.author = author]
    /\ UNCHANGED <<store, existing_ids, record_list, no_data, returned>>

\* random.choices on an empty population raises IndexError, which the handler's
\* `except Exception` turns into a database-operation error
ListRaises(category, author) ==
    /\ cmd = NoCmd
    /\ ListQuery(store, category, author) = {}
    /\ quotes' = {}
    /\ chosen' = <<>>
    /\ out' = <<DbError("IndexError")>>
    /\ error_log' = <<DbError("IndexError")>>
    /\ trace' = get_db(<<"query", "choices">>, TRUE) \o <<"echo", "error">>
    /\ cmd' = [NoCmd EXCEPT !.name = "list_quotes", !.category = category, !.author = author]
    /\ UNCHANGED <<store, existing_ids, record_list, no_data, returned>>

ListFound(category, author) ==
    /\ cmd = NoCmd
    /\ ListQuery(store, category, author) # {}
    /\ \E sample \in Choices(ListQuery(store, category, author)) :
        /\ chosen' = sample
        /\ out' = <<Result("success", "quotes listed successfully",
                           [i \in 1..K |-> Project(sample[i])])>>
    /\ quotes' = ListQuery(store, category, author)
    /\ error_log' = <<>>
    /\ trace' = get_db(<<"query", "choices", "echo">> \o [i \in 1..K |-> "info"], FALSE)
    /\ cmd' = [NoCmd EXCEPT !.name = "list_quotes", !.category = category, !.author = author]
    /\ UNCHANGED <<store, existing_ids, record_list, no_data, returned>>

list_quotes ==
    /\ cmd = NoCmd
    /\ \E category \in Categories \cup {None}, author \in Authors \cup {None} :
        \/ ListRaises(category, author)
        \/ ListFound(category, author)

(***************************************************************************)
(* list_categories, list_authors                                           *)
(***************************************************************************)
list_categories ==
    /\ cmd = NoCmd
    /\ out' = <<Result("success", "categories listed successfully",
                       <<DistinctCategories(store)>>)>>
    /\ error_log' = <<>>
    /\ trace' = get_db(<<"query", "echo", "info">>, FALSE)
    /\ cmd' = [NoCmd EXCEPT !.name = "list_categories"]
    /\ UNCHANGED <<store, quotes, chosen, existing_ids, record_list, no_data, returned>>

list_authors ==
    /\ cmd = NoCmd
    /\ out' = <<Result("success", "authors listed successfully",
                       <<DistinctAuthors(store)>>)>>
    /\ error_log' = <<>>
    /\ trace' = get_db(<<"query", "echo", "info">>, FALSE)
    /\ cmd' = [NoCmd EXCEPT !.name = "list_authors"]
    /\ UNCHANGED <<store, quotes, chosen, existing_ids, record_list, no_data, returned>>

(***************************************************************************)
(* The process of one invocation ends: its locals and its output are gone, *)
(* the table stays.  The next command starts from a fresh process.         *)
(***************************************************************************)
cli ==
    /\ cmd # NoCmd
    /\ cmd' = NoCmd
    /\ out' = <<>>
    /\ trace' = <<>>
    /\ quotes' = {}
    /\ chosen' = <<>>
    /\ existing_ids' = {}
    /\ record_list' = <<>>
    /\ no_data' = 0
    /\ error_log' = <<>>
    /\ returned' = NoReturn
    /\ UNCHANGED store

Next ==
    \/ cli
    \/ import_quotes
    \/ add
    \/ generate
    \/ list_quotes
    \/ list_categories
    \/ list_authors

Spec == Init /\ [][Next]_vars

(***************************************************************************)
(* The functions of utils called on their own, as the tests call them:     *)
(* the store holds any rows, the arguments are any file and any mapping.   *)
(***************************************************************************)
\* the stores a caller may hold: rows of one content under any ids
Dbs ==
    SUBSET {[id |-> i, category |-> <<"w">>, author |-> <<"a">>, quote |-> <<"q">>] :
                i \in 1..(MaxBatch + 1)}

\* the mappings a caller may pass: what load_data returns, and mappings whose
\* records carry an `id`
Batches == {lower_data(content) : content \in Contents} \cup IdContents

InitUtils ==
    /\ store \in Dbs
    /\ cmd = NoCmd
    /\ out = <<>>
    /\ trace = <<>>
    /\ quotes = {}
    /\ chosen = <<>>
    /\ existing_ids = {}
    /\ record_list = <<>>
    /\ no_data = 0
    /\ error_log = <<>>
    /\ returned = NoReturn

call_load_data ==
    /\ cmd = NoCmd
    /\ \E file \in Files :
        /\ cmd' = [NoCmd EXCEPT !.name = "load_data", !.file = file]
        /\ returned' = IF LoadError(file) # ""
                       THEN [raised |-> LoadError(file), value |-> None, argument |-> None]
                       ELSE [raised |-> "", value |-> load_data(file), argument |-> None]
    /\ UNCHANGED <<store, out, trace, quotes, chosen, existing_ids, record_list, no_data,
                   error_log>>

\* the types of the values a caller may pass as `data` and as `db`
DataTypes == {"dict", "list", "NoneType"}
DbTypes == {"Session", "Engine"}

\* a validation that tests the data argument only
ArgumentError_DataOnly(data_type, db_type) ==
    IF data_type # "dict" THEN "Invalid data format. Data argument must be a dictionary"
    ELSE ""

\* the ValueError the isinstance tests of query_existing_data raise, or ""
ArgumentError(data_type, db_type) ==
    IF data_type # "dict" THEN "Invalid data format. Data argument must be a dictionary"
    ELSE IF db_type # "Session"
         THEN "Invalid database session. Database session must be a sqlalchemy session object"
         ELSE ""

\* the mapping the caller passed, once the two loops have written `category`
\* and `id` into its records
Mutated(data, list) ==
    [k \in 1..Len(data) |->
        <<data[k][1],
          SubSeq(list, CountRecords(SubSeq(data, 1, k - 1)) + 1,
                 CountRecords(SubSeq(data, 1, k)))>>]

call_query_existing_data ==
    /\ cmd = NoCmd
    /\ \E data_type \in DataTypes, db_type \in DbTypes :
        \E data \in IF data_type = "dict" THEN Batches
                     ELSE IF data_type = "list" THEN {<<>>, <<QUOTE, AUTHOR>>} ELSE {None} :
            /\ cmd' = [NoCmd EXCEPT !.name = "query_existing_data", !.data = data,
                                    !.data_type = data_type, !.db_type = db_type]
            /\ IF ArgumentError(data_type, db_type) # ""
               THEN /\ returned' = [raised |-> ArgumentError(data_type, db_type),
                                    value |-> None, argument |-> data]
                    /\ trace' = <<>>
               ELSE \E result \in {query_existing_data(data, store)} :
                    /\ returned' = [raised |-> "", value |-> result,
                                    argument |-> Mutated(data, result.record_list)]
                    /\ trace' = <<"query">>
    /\ UNCHANGED <<store, out, quotes, chosen, existing_ids, record_list, no_data, error_log>>

NextUtils ==
    \/ cli
    \/ call_load_data
    \/ call_query_existing_data

SpecUtils == InitUtils /\ [][NextUtils]_vars

(***************************************************************************)
(* Failures of the store.  Any call on the store may raise: opening the    *)
(* session, a query, an add, the commit.  The exception leaves the session *)
(* block through get_db and reaches the `except Exception` of the command. *)
(***************************************************************************)
StoreCalls == {"query", "add", "commit"}

\* str(e) of the exception the store raises
OperationalError == "OperationalError"

\* the calls of body that may raise: 0 stands for the opening of the session
FaultPoints(body) == {0} \cup {p \in 1..Len(body) : body[p] \in StoreCalls}

\* how many of the first p calls are `call`
Count(call, body, p) == Cardinality({i \in 1..p : body[i] = call})

\* a command whose `except` branch is missing: the exception leaves the command
Fault_Escapes(command, body, outs, logs, p, echoed) ==
    /\ cmd' = [command EXCEPT !.fault = IF p = 0 THEN "open" ELSE body[p]]
    /\ trace' = IF p = 0 THEN <<"raise">> ELSE get_db(SubSeq(body, 1, p), TRUE)
    /\ out' = SubSeq(outs, 1, Count("echo", body, p - 1))
    /\ error_log' = SubSeq(logs, 1, Count("error", body, p - 1))

\* the command `command`, whose session block makes the calls `body`, echoes
\* `outs` and logs `logs`, when call p raises: the block stops there, the
\* session is closed, the handler echoes `echoed` and logs the error
Fault(command, body, outs, logs, p, echoed) ==
    /\ cmd' = [command EXCEPT !.fault = IF p = 0 THEN "open" ELSE body[p]]
    /\ trace' = (IF p = 0 THEN <<"raise">> ELSE get_db(SubSeq(body, 1, p), TRUE))
                \o <<"echo", "error">>
    /\ out' = SubSeq(outs, 1, Count("echo", body, p - 1)) \o <<echoed>>
    /\ error_log' = SubSeq(logs, 1, Count("error", body, p - 1))
                    \o <<DbError(OperationalError)>>

import_quotes_fails ==
    /\ cmd = NoCmd
    /\ \E file \in Files :
        IF LoadError(file) # ""
        THEN /\ Fault(ImportCmd(file), <<>>, <<>>, <<>>, 0, ImportEchoError(OperationalError))
             /\ UNCHANGED <<existing_ids, record_list, no_data>>
        ELSE \E data \in {query_existing_data(load_data(file), store)} :
                \E body \in {LET bad == FirstKeyError(data.record_list, data.existing_ids)
                                 added == Added(data.record_list, data.existing_ids)
                             IN IF bad = 0 THEN ImportCalls(Cardinality(added))
                                ELSE <<"query">>
                                     \o [i \in 1..Cardinality({a \in added : a < bad})
                                            |-> "add"]} :
                    \E p \in FaultPoints(body) :
                        /\ Fault(ImportCmd(file), body, <<>>, <<>>, p,
                                 ImportEchoError(OperationalError))
                        /\ IF p <= 1
                           THEN UNCHANGED <<existing_ids, record_list, no_data>>
                           ELSE /\ existing_ids' = data.existing_ids
                                /\ record_list' = data.record_list
                                /\ no_data' = p - 2
    /\ UNCHANGED <<store, quotes, chosen, returned>>

add_fails ==
    /\ cmd = NoCmd
    /\ \E category \in Categories, quote \in Quotes, author \in Authors :
        \E body \in {IF AddAccepts(category, quote, author)
                      THEN <<"add", "commit">> ELSE <<"echo", "error">>} :
            \E p \in FaultPoints(body) :
                Fault([NoCmd EXCEPT !.name = "add", !.category = category,
                                    !.quote = quote, !.author = author],
                      body, <<>>, <<>>, p, DbError(OperationalError))
    /\ UNCHANGED <<store, quotes, chosen, existing_ids, record_list, no_data, returned>>

generate_fails ==
    /\ cmd = NoCmd
    /\ \E category \in Categories \cup {None}, author \in Authors \cup {None} :
        \E body \in {GenerateCalls(store, category, author)} :
            \E p \in FaultPoints(body) :
                Fault([NoCmd EXCEPT !.name = "generate", !.category = category,
                                    !.author = author],
                      body, GenerateCheck(store, category, author),
                      GenerateCheck(store, category, author), p, DbError(OperationalError))
    /\ UNCHANGED <<store, quotes, chosen, existing_ids, record_list, no_data, returned>>

list_quotes_fails ==
    /\ cmd = NoCmd
    /\ \E category \in Categories \cup {None}, author \in Authors \cup {None} :
        \E p \in FaultPoints(<<"query">>) :
            Fault([NoCmd EXCEPT !.name = "list_quotes", !.category = category,
                                !.author = author],
                  <<"query">>, <<>>, <<>>, p, DbError(OperationalError))
    /\ UNCHANGED <<store, quotes, chosen, existing_ids, record_list, no_data, returned>>

list_categories_fails ==
    /\ cmd = NoCmd
    /\ \E p \in FaultPoints(<<"query">>) :
        Fault([NoCmd EXCEPT !.name = "list_categories"], <<"query">>, <<>>, <<>>, p,
              DbError(OperationalError))
    /\ UNCHANGED <<store, quotes, chosen, existing_ids, record_list, no_data, returned>>

list_authors_fails ==
    /\ cmd = NoCmd
    /\ \E p \in FaultPoints(<<"query">>) :
        Fault([NoCmd EXCEPT !.name = "list_authors"], <<"query">>, <<>>, <<>>, p,
              DbError(OperationalError))
    /\ UNCHANGED <<store, quotes, chosen, existing_ids, record_list, no_data, returned>>

NextFault ==
    \/ Next
    \/ import_quotes_fails
    \/ add_fails
    \/ generate_fails
    \/ list_quotes_fails
    \/ list_categories_fails
    \/ list_authors_fails

SpecFault == Init /\ [][NextFault]_vars

(***************************************************************************)
(* Two imports in a row: an import succeeds, its process ends, and the     *)
(* next invocation imports the same source file again, as it is or with    *)
(* the records of its categories in another order.                         *)
(***************************************************************************)
\* the lists that hold the entries of list, each once, in any order
Orderings(list) ==
    {[i \in 1..Len(list) |-> list[f[i]]] :
        f \in {g \in [1..Len(list) -> 1..Len(list)] :
                    \A i, j \in 1..Len(list) : i # j => g[i] # g[j]}}

\* the JSON objects with the keys of content, each key with its records in any order
Reorderings(content) ==
    {[k \in 1..Len(content) |-> <<content[k][1], choice[k]>>] :
        choice \in {ch \in [1..Len(content) ->
                                UNION {Orderings(content[k][2]) : k \in 1..Len(content)}] :
                        \A k \in 1..Len(content) : ch[k] \in Orderings(content[k][2])}}

\* the process of a successful import ends; the file it read stays on disk
cli_remember ==
    /\ cmd.name = "import_quotes"
    /\ cmd.fault = "none"
    /\ cmd.previous = NoFile
    /\ \E i \in 1..Len(out) : out[i].status = "success"
    /\ cmd' = [NoCmd EXCEPT !.previous = cmd.file]
    /\ out' = <<>>
    /\ trace' = <<>>
    /\ quotes' = {}
    /\ chosen' = <<>>
    /\ existing_ids' = {}
    /\ record_list' = <<>>
    /\ no_data' = 0
    /\ error_log' = <<>>
    /\ returned' = NoReturn
    /\ UNCHANGED store

\* the next invocation imports the file again
import_after ==
    /\ cmd.name = "none"
    /\ cmd.previous # NoFile
    /\ \E content \in Reorderings(cmd.previous.content) :
        \E file \in {[cmd.previous EXCEPT !.content = content]} :
            /\ ImportSession(file)
            /\ cmd' = [ImportCmd(file) EXCEPT !.previous = cmd.previous]

NextReimport ==
    \/ cli
    \/ add
    \/ import_quotes
    \/ cli_remember
    \/ import_after

SpecReimport == Init /\ [][NextReimport]_vars

(***************************************************************************)
(* Vocabulary of the properties.                                           *)
(***************************************************************************)
Range(seq) == {seq[i] : i \in 1..Len(seq)}

\* a filter option counts as given when it holds a non-empty value
Given(option) == option # None /\ option # <<>>

\* two characters that are the same letter, in whatever case
SameLetter(c, d) ==
    c = d \/ \E i \in 1..Len(UpperCase) : {c, d} = {UpperCase[i], LowerCase[i]}

\* two option values that differ at most in letter case
CaseVariant(x, y) ==
    IF x = None \/ y = None THEN x = y
    ELSE Len(x) = Len(y) /\ \A i \in 1..Len(x) : SameLetter(x[i], y[i])

\* the rows of db that match the optional filters
MatchingRows(db, category, author) ==
    {r \in db : /\ Given(category) => r.category = Lower(category)
                /\ Given(author) => r.author = Lower(author)}

\* the path does not end in the five characters .json
NotJson(path) ==
    \/ Len(path) < 5
    \/ <<path[Len(path) - 4], path[Len(path) - 3], path[Len(path) - 2],
         path[Len(path) - 1], path[Len(path)]>> # <<".", "j", "s", "o", "n">>

\* no upper-case letter occurs in s
IsLower(s) == \A i \in 1..Len(s) : \A j \in 1..Len(UpperCase) : s[i] # UpperCase[j]

\* x is y in lower case
LowerOf(x, y) == IsLower(x) /\ CaseVariant(x, y)

\* the session block of the command ended in an exception
BodyRaised ==
    \/ cmd.fault \in StoreCalls
    \/ cmd.name = "import_quotes" /\ cmd.fault = "none" /\ LoadError(cmd.file) # ""
    \/ cmd.name = "list_quotes" /\ cmd.fault = "none" /\ quotes = {}

Succeeded == \E i \in 1..Len(out) : out[i].status = "success"

\* the records of a source file in file order, each with the key it is listed under
RECURSIVE FileRecordsOf(_)
FileRecordsOf(content) ==
    IF content = <<>> THEN <<>>
    ELSE [i \in 1..Len(Head(content)[2]) |->
            [key |-> Head(content)[1], record |-> Head(content)[2][i]]]
         \o FileRecordsOf(Tail(content))

\* the value a record of a source file lists under `key`, in whatever case the
\* key is written
FieldOf(record, key) ==
    record[CHOOSE k \in 1..Len(record) : CaseVariant(record[k][1], key)][2]

\* every record of the source file has a quote and an author
WellFormed(content) ==
    \A c \in 1..Len(content) : \A r \in 1..Len(content[c][2]) :
        /\ \E k \in 1..Len(content[c][2][r]) : CaseVariant(content[c][2][r][k][1], QUOTE)
        /\ \E k \in 1..Len(content[c][2][r]) : CaseVariant(content[c][2][r][k][1], AUTHOR)

\* the row the candidate at position i of a batch stands for
CandidateRow(list, i) ==
    [id |-> i, category |-> DictGet(list[i], CATEGORY),
     author |-> DictGet(list[i], AUTHOR), quote |-> DictGet(list[i], QUOTE)]

ImportReport(count, file) ==
    Result("success", "{no_data} data imported to database from {file_path}",
           <<count, file.path>>)

(***************************************************************************)
(* C1: import_quotes inserts a candidate record exactly when its           *)
(* positional id is not the id of a row already in the store, and reports  *)
(* the number of candidates minus the number of candidate ids that were    *)
(* already present.                                                        *)
(***************************************************************************)
C1_ImportSkipsExistingIds ==
    [][(/\ cmd'.name = "import_quotes"
        /\ LoadError(cmd'.file) = ""
        /\ WellFormed(cmd'.file.content)) =>
        LET list == record_list'
            present == {i \in 1..Len(list) : i \in Ids(store)}
        IN /\ \A i \in 1..Len(list) :
                (CandidateRow(list, i) \in store' \ store) <=> (i \notin Ids(store))
           /\ store' \ store \subseteq {CandidateRow(list, i) : i \in 1..Len(list)}
           /\ store \subseteq store'
           /\ out' = <<ImportReport(Len(list) - Cardinality(present), cmd'.file)>>]_vars

C1_Witness ==
    /\ cmd.name = "import_quotes"
    /\ existing_ids # {}
    /\ no_data > 0
    /\ Succeeded

(***************************************************************************)
(* C2: list_quotes, when no row matches the filters, reports 'No quotes    *)
(* could be retrieved in the database' and does not sample.                *)
(***************************************************************************)
C2_ListEmptyReportsNotFound ==
    (cmd.name = "list_quotes" /\ MatchingRows(store, cmd.category, cmd.author) = {}) =>
        /\ out = <<NoQuotesRetrieved>>
        /\ "choices" \notin Range(trace)

(***************************************************************************)
(* C3: list_quotes, when at least one row matches the filters, returns a   *)
(* success result of exactly 5 entries, each a row of the matching set.    *)
(***************************************************************************)
C3_ListFiveFromMatching ==
    (cmd.name = "list_quotes" /\ MatchingRows(store, cmd.category, cmd.author) # {}) =>
        /\ Len(out) = 1
        /\ out[1].status = "success"
        /\ Len(out[1].data) = 5
        /\ Len(chosen) = 5
        /\ \A i \in 1..Len(chosen) :
            /\ chosen[i] \in MatchingRows(store, cmd.category, cmd.author)
            /\ out[1].data[i] = Project(chosen[i])

(***************************************************************************)
(* C4: generate, when no row matches the filters, never calls the random   *)
(* choice, reports 'No quotes could be generated' and emits no success.    *)
(***************************************************************************)
C4_GenerateEmptyNoSample ==
    (cmd.name = "generate" /\ MatchingRows(store, cmd.category, cmd.author) = {}) =>
        /\ "choice" \notin Range(trace)
        /\ out # <<>>
        /\ out[Len(out)] = NoQuotesGenerated
        /\ ~Succeeded

C4_Witness ==
    /\ cmd.name = "generate"
    /\ store # {}
    /\ Given(cmd.author)
    /\ MatchingRows(store, cmd.category, cmd.author) = {}
    /\ out[Len(out)] = NoQuotesGenerated

(***************************************************************************)
(* C5: generate with a category whose lowercased value is not a category   *)
(* of the store reports the not-found condition for that category and      *)
(* emits no success result.                                                *)
(***************************************************************************)
C5_GenerateUnknownCategory ==
    (/\ cmd.name = "generate"
     /\ Given(cmd.category)
     /\ Lower(cmd.category) \notin {r.category : r \in store}) =>
        /\ \E i \in 1..Len(out) :
            /\ out[i].status = "error"
            /\ out[i].message \in
                {"quotes for category:[{category}] are not found in the database",
                 "quotes for category:[{category}] and author:[{author}] are not found in the database"}
            /\ out[i].data[1] = Lower(cmd.category)
        /\ ~Succeeded

C5_Witness ==
    /\ cmd.name = "generate"
    /\ cmd.category = <<"l">>
    /\ store # {}
    /\ \A r \in store : r.category = <<"w">>
    /\ Len(out) = 2

(***************************************************************************)
(* C6: the rows a successful generate can return are exactly the rows      *)
(* matching the lowercased filters that are given, the whole store when    *)
(* none is: the returned row matches, and every matching row can be the    *)
(* one returned.                                                           *)
(***************************************************************************)
C6_GenerateReturnsMatching ==
    /\ (cmd.name = "generate" /\ Succeeded) =>
        /\ quotes = MatchingRows(store, cmd.category, cmd.author)
        /\ Len(chosen) = 1
        /\ chosen[1] \in MatchingRows(store, cmd.category, cmd.author)
        /\ out[Len(out)] = Result("success", "", <<Project(chosen[1])>>)
    /\ cmd = NoCmd =>
        \A category \in Categories \cup {None}, author \in Authors \cup {None} :
            \A r \in MatchingRows(store, category, author) :
                ENABLED (GenerateFound(category, author) /\ chosen' = <<r>>)

C6_Witness ==
    /\ cmd.name = "generate"
    /\ Succeeded
    /\ Given(cmd.category)
    /\ Given(cmd.author)
    /\ quotes # store
    /\ Cardinality(store) >= 2

(***************************************************************************)
(* C7: generate and list_quotes select from the same set of rows for any   *)
(* two filter values that differ only in letter case.                      *)
(***************************************************************************)
C7_FiltersIgnoreCase ==
    cmd.name \in {"generate", "list_quotes"} =>
        \A category \in Categories \cup {None}, author \in Authors \cup {None} :
            (CaseVariant(cmd.category, category) /\ CaseVariant(cmd.author, author)) =>
                quotes = IF cmd.name = "generate"
                         THEN GenerateQuery(store, category, author)
                         ELSE ListQuery(store, category, author)

C7_Witness ==
    /\ cmd.name = "list_quotes"
    /\ cmd.category = <<"W">>
    /\ cmd.author = None
    /\ quotes # {}
    /\ quotes # store

(***************************************************************************)
(* C8: add with three non-empty fields gives the store exactly one more    *)
(* row, holding the lowercased inputs under an id no row had; the other    *)
(* rows stay as they were.                                                 *)
(***************************************************************************)
C8_AddInsertsOneRow ==
    [][(cmd'.name = "add" /\ Given(cmd'.category) /\ Given(cmd'.quote) /\ Given(cmd'.author)) =>
        \E r \in store' :
            /\ r \notin store
            /\ r.id \notin Ids(store)
            /\ store' = store \cup {r}
            /\ r.category = Lower(cmd'.category)
            /\ r.quote = Lower(cmd'.quote)
            /\ r.author = Lower(cmd'.author)]_vars

C8_Witness ==
    /\ cmd.name = "add"
    /\ cmd.category = <<"W">>
    /\ cmd.quote = <<"Q">>
    /\ cmd.author = <<"A">>
    /\ Cardinality(store) = 2
    /\ out[1].status = "success, quote added successfully"

(***************************************************************************)
(* C9: add with a missing or empty category, quote or author inserts no    *)
(* row, makes no commit and reports an error.                              *)
(***************************************************************************)
C9_AddRequiresAllFields ==
    [][(cmd'.name = "add"
        /\ ~(Given(cmd'.category) /\ Given(cmd'.quote) /\ Given(cmd'.author))) =>
        /\ store' = store
        /\ "add" \notin Range(trace')
        /\ "commit" \notin Range(trace')
        /\ Len(out') = 1
        /\ out'[1].status \in {"error", "usage"}]_vars

C9_Witness ==
    /\ cmd.name = "add"
    /\ cmd.category = <<"w">>
    /\ cmd.quote = <<"q">>
    /\ cmd.author = <<>>
    /\ out[1].status = "error"

(***************************************************************************)
(* C10: import_quotes into an empty store of a file holding n records      *)
(* inserts exactly n rows, with the ids 1..n in flattened order, each with *)
(* the lowercased category key it is listed under, and reports n.          *)
(***************************************************************************)
C10_ImportIntoEmptyStore ==
    [][(/\ cmd'.name = "import_quotes"
        /\ LoadError(cmd'.file) = ""
        /\ WellFormed(cmd'.file.content)
        /\ store = {}) =>
        LET listed == FileRecordsOf(cmd'.file.content)
        IN /\ store' = {[id |-> i,
                         category |-> Lower(listed[i].key),
                         author |-> Lower(FieldOf(listed[i].record, AUTHOR)),
                         quote |-> Lower(FieldOf(listed[i].record, QUOTE))] :
                        i \in 1..Len(listed)}
           /\ out' = <<ImportReport(Len(listed), cmd'.file)>>]_vars


(***************************************************************************)
(* C11: query_existing_data on a batch of n records, when no row of the    *)
(* store has an id in 1..n, returns no existing id, a record_list of n     *)
(* entries and the record_ids 1..n in order.                               *)
(***************************************************************************)
C11_AllNewIds ==
    (cmd.name = "query_existing_data" /\ returned.raised = "") =>
        LET n == CountRecords(cmd.data)
        IN (\A r \in store : r.id \notin 1..n) =>
            /\ returned.value.existing_ids = {}
            /\ Len(returned.value.record_list) = n
            /\ returned.value.record_ids = [i \in 1..n |-> i]

(***************************************************************************)
(* C12: query_existing_data gives the record at flattened position p the   *)
(* id p + 1, for every batch: the ids are pairwise distinct and are 1..n,  *)
(* and they are the same whatever the store holds.                         *)
(***************************************************************************)
C12_IdsByPosition ==
    (cmd.name = "query_existing_data" /\ returned.raised = "") =>
        LET n == CountRecords(cmd.data)
            list == returned.value.record_list
        IN /\ Len(list) = n
           /\ \A p \in 1..n : DictGet(list[p], ID) = PyInt(p)
           /\ \A p1, p2 \in 1..n : p1 # p2 => DictGet(list[p1], ID) # DictGet(list[p2], ID)
           /\ \A db \in Dbs : query_existing_data(cmd.data, db).record_list = list


(***************************************************************************)
(* C13: import accepts a source file whose records carry an `id` field,    *)
(* whatever its value: the field is not read, every record is inserted     *)
(* under the id of its flattened position, or skipped when a row has it.   *)
(***************************************************************************)
C13_ImportAcceptsIdField ==
    [][(/\ cmd'.name = "import_quotes"
        /\ cmd'.fault = "none"
        /\ cmd'.file.exists
        /\ cmd'.file.path = JsonPath
        /\ cmd'.file.content \in IdContents) =>
        LET listed == FileRecordsOf(cmd'.file.content)
        IN /\ Succeeded'
           /\ store' = store \cup {[id |-> i,
                                    category |-> Lower(listed[i].key),
                                    author |-> Lower(FieldOf(listed[i].record, AUTHOR)),
                                    quote |-> Lower(FieldOf(listed[i].record, QUOTE))] :
                                   i \in {p \in 1..Len(listed) : p \notin Ids(store)}}]_vars


(***************************************************************************)
(* C14: load_data fails with 'Invalid file format. Only JSON files are     *)
(* allowed' for every path that does not end in .json, whatever the file   *)
(* holds, and returns no data.                                             *)
(***************************************************************************)
C14_NonJsonRejected ==
    (cmd.name = "load_data" /\ NotJson(cmd.file.path)) =>
        /\ returned.raised = "Invalid file format. Only JSON files are allowed"
        /\ returned.value = None

\* C14 as the code has it: load_data fails with 'Invalid file format. Only
\* JSON files are allowed' for every path of an existing file that does not
\* end in .json, whatever the file holds, and returns no data.
C14_ExistingNonJsonRejected ==
    (cmd.name = "load_data" /\ cmd.file.exists /\ NotJson(cmd.file.path)) =>
        /\ returned.raised = "Invalid file format. Only JSON files are allowed"
        /\ returned.value = None

C14_Witness ==
    /\ cmd.name = "load_data"
    /\ cmd.file.exists
    /\ cmd.file.path = UpperPath
    /\ cmd.file.content # <<>>
    /\ returned.raised = "Invalid file format. Only JSON files are allowed"

(***************************************************************************)
(* C15: load_data fails with 'Invalid file path provided, File may not     *)
(* exist' for every path that does not exist, whatever its extension.      *)
(***************************************************************************)
C15_MissingPathRejected ==
    (cmd.name = "load_data" /\ ~cmd.file.exists) =>
        /\ returned.raised = "Invalid file path provided, File may not exist"
        /\ returned.value = None

C15_Witness ==
    /\ cmd.name = "load_data"
    /\ ~cmd.file.exists
    /\ cmd.file.path = TextPath
    /\ returned.raised = "Invalid file path provided, File may not exist"


C17_StoreFailureReported ==
    cmd.fault # "none" =>
        /\ out # <<>>
        /\ out[Len(out)].status = "error"
        /\ out[Len(out)].data = <<OperationalError>>
        /\ Cardinality({i \in 1..Len(error_log) :
                            error_log[i] = DbError(OperationalError)}) = 1
        /\ error_log[Len(error_log)] = DbError(OperationalError)
        /\ \E i \in 1..Len(trace) :
            /\ trace[i] = "raise"
            /\ SubSeq(trace, i + 1, Len(trace)) = <<"echo", "error">>

C17_Witness ==
    /\ cmd.name = "generate"
    /\ cmd.fault = "query"
    /\ Len(out) = 2
    /\ out[1].status = "error"
    /\ out[2] = DbError(OperationalError)
    /\ Len(error_log) = 2

(***************************************************************************)
(* C18: every session a command opens through get_db is closed before the  *)
(* command returns, on every path; an exception raised in the session      *)
(* block goes on to the command once the session is closed; no session is  *)
(* open between two commands.                                              *)
(***************************************************************************)
C18_SessionClosedOnEveryPath ==
    /\ Count("open", trace, Len(trace)) <= 1
    /\ \A i \in 1..Len(trace) :
        trace[i] = "open" => Count("close", trace, Len(trace)) = 1
    /\ \A i, j \in 1..Len(trace) :
        (trace[i] = "open" /\ trace[j] = "close") => i < j
    /\ \A i, j \in 1..Len(trace) :
        (trace[i] = "open" /\ trace[j] = "raise") => trace[j - 1] = "close"
    /\ BodyRaised => \E j \in 1..Len(trace) : trace[j] = "raise"

C18_Witness ==
    /\ cmd.name = "import_quotes"
    /\ cmd.fault = "commit"
    /\ no_data > 0
    /\ \E i \in 1..Len(trace) : trace[i] = "close" /\ trace[i + 1] = "raise"


(***************************************************************************)
(* C19: after any sequence of add and import commands no two rows of the   *)
(* store have the same id.                                                 *)
(***************************************************************************)
C19_IdsUnique == \A r1, r2 \in store : r1.id = r2.id => r1 = r2

C19_Witness ==
    /\ cmd.name = "import_quotes"
    /\ Succeeded
    /\ no_data = 1
    /\ \E r1, r2 \in store :
        /\ r1.id # r2.id
        /\ [r1 EXCEPT !.id = r2.id] = r2


(***************************************************************************)
(* C20: after any add or import, given in whatever letter case, the        *)
(* category, the author and the quote of every row are in lower case, and  *)
(* what generate and list_quotes return are the values of rows of the      *)
(* store, unchanged.                                                       *)
(***************************************************************************)
C20_RowsLowerCase ==
    /\ \A r \in store : IsLower(r.category) /\ IsLower(r.author) /\ IsLower(r.quote)
    /\ (cmd.name \in {"generate", "list_quotes"} /\ Succeeded) =>
        LET returned_quotes == out[Len(out)].data
        IN \A i \in 1..Len(returned_quotes) :
            \E r \in store :
                /\ returned_quotes[i].category = r.category
                /\ returned_quotes[i].author = r.author
                /\ returned_quotes[i].quote = r.quote

C20_Witness ==
    /\ cmd.name = "add"
    /\ cmd.category = <<"W">>
    /\ cmd.quote = <<"Q">>
    /\ cmd.author = <<"A">>
    /\ \E r \in store : r.category = <<"w">> /\ r.quote = <<"q">> /\ r.author = <<"a">>
    /\ \E r \in store : r.category = <<"w">> /\ r.quote = <<"q">> /\ r.author = <<"b">>


(***************************************************************************)
(* C21: no command updates or deletes a row: every row present before a    *)
(* command is present, with the same id, category, author and quote, after *)
(* it; generate, list_quotes, list_categories and list_authors leave the   *)
(* store as it is; import_quotes leaves the row of a colliding id alone.   *)
(***************************************************************************)
C21_RowsNeverChange ==
    [][/\ store \subseteq store'
       /\ \A r \in store : \A r2 \in store' : r2.id = r.id => r2 = r
       /\ cmd'.name \in {"generate", "list_quotes", "list_categories", "list_authors"}
            => store' = store]_vars

C21_Witness ==
    /\ cmd.name = "import_quotes"
    /\ Succeeded
    /\ WellFormed(cmd.file.content)
    /\ \E i \in existing_ids :
        /\ i \in 1..Len(record_list)
        /\ CandidateRow(record_list, i) \notin store
        /\ \E r \in store : r.id = i


(***************************************************************************)
(* C22: import_quotes commits once, at the end: a successful import makes  *)
(* exactly one commit, after its last add and before its success report,   *)
(* also when it adds nothing; as long as the commit has not succeeded no   *)
(* row of the batch is in the store.                                       *)
(***************************************************************************)
C22_ImportCommitsOnceAtEnd ==
    [][cmd'.name = "import_quotes" =>
        /\ Succeeded' =>
            /\ Count("commit", trace', Len(trace')) = 1
            /\ Count("add", trace', Len(trace')) = no_data'
            /\ \A i, j \in 1..Len(trace') :
                (trace'[i] = "add" /\ trace'[j] = "commit") => i < j
            /\ \A j, k \in 1..Len(trace') :
                (trace'[j] = "commit" /\ trace'[k] = "echo") => j < k
        /\ ~Succeeded' => store' = store]_vars

C22_Witness ==
    /\ cmd.name = "import_quotes"
    /\ Succeeded
    /\ no_data = 0
    /\ Len(record_list) = 2
    /\ Count("commit", trace, Len(trace)) = 1


(***************************************************************************)
(* C23: importing the same file a second time, unchanged and with no other *)
(* command in between, inserts no row, reports a count of 0 and leaves the *)
(* store as the first import left it.                                      *)
(***************************************************************************)
C23_ReimportIsIdempotent ==
    [][(/\ cmd.name = "none"
        /\ cmd.previous # NoFile
        /\ cmd'.name = "import_quotes"
        /\ cmd'.file = cmd.previous) =>
        /\ store' = store
        /\ no_data' = 0
        /\ out' = <<ImportReport(0, cmd'.file)>>]_vars

C23_Witness ==
    /\ cmd.name = "import_quotes"
    /\ cmd.previous = cmd.file
    /\ Len(record_list) = 2
    /\ existing_ids = {1, 2}
    /\ no_data = 0
    /\ Succeeded


(***************************************************************************)
(* C24: query_existing_data raises a ValueError when the batch is not a    *)
(* mapping and when the store handle is not a session; it then makes no    *)
(* store query, writes no id into the batch and returns no result.         *)
(***************************************************************************)
C24_InvalidArgumentsRejected ==
    (cmd.name = "query_existing_data"
        /\ (cmd.data_type # "dict" \/ cmd.db_type # "Session")) =>
        /\ returned.raised \in
            {"Invalid data format. Data argument must be a dictionary",
             "Invalid database session. Database session must be a sqlalchemy session object"}
        /\ cmd.data_type # "dict" =>
            returned.raised = "Invalid data format. Data argument must be a dictionary"
        /\ trace = <<>>
        /\ returned.argument = cmd.data
        /\ returned.value = None

C24_Witness ==
    /\ cmd.name = "query_existing_data"
    /\ cmd.data_type = "dict"
    /\ cmd.db_type = "Engine"
    /\ CountRecords(cmd.data) = 2
    /\ store # {}
    /\ returned.raised =
        "Invalid database session. Database session must be a sqlalchemy session object"


(***************************************************************************)
(* C25: an import that fails, because the loader rejects the path, because *)
(* a record lacks a field, because the existence query fails or because    *)
(* the commit fails, persists no row of its batch: the store is what it    *)
(* was before the command, also when adds had been issued in the session.  *)
(***************************************************************************)
C25_FailedImportStoresNothing ==
    [][(cmd'.name = "import_quotes" /\ ~Succeeded') =>
        /\ store' = store
        /\ out'[Len(out')].status = "error"]_vars

C25_Witness ==
    /\ cmd.name = "import_quotes"
    /\ cmd.fault = "none"
    /\ ~Succeeded
    /\ cmd.file.content \in PartialContents
    /\ no_data = 1
    /\ Count("add", trace, Len(trace)) = 1
    /\ out = <<ImportEchoError("'author'")>>


(***************************************************************************)
(* C26: in generate the existence check does not gate the query: when the  *)
(* requested category or author is not among the distinct values of the    *)
(* store, the command reports the not-found error, then runs the filtered  *)
(* query all the same and ends on the empty-result path: two error         *)
(* results and two error-log records, the not-found error first and 'No    *)
(* quotes could be generated' second.                                      *)
(***************************************************************************)
C26_GenerateCheckIsAdvisory ==
    (/\ cmd.name = "generate"
     /\ \/ Given(cmd.category) /\ \A r \in store : r.category # Lower(cmd.category)
        \/ Given(cmd.author) /\ \A r \in store : r.author # Lower(cmd.author)) =>
        /\ Len(out) = 2
        /\ out[1].status = "error"
        /\ out[1] # NoQuotesGenerated
        /\ out[2] = NoQuotesGenerated
        /\ error_log = out
        /\ \E i, j, k \in 1..Len(trace) :
            /\ i < j /\ j < k
            /\ trace[i] = "echo" /\ trace[i + 1] = "error"
            /\ trace[j] = "query"
            /\ trace[k] = "echo" /\ trace[k + 1] = "error"
            /\ \A m \in (i + 2)..(k - 1) : trace[m] = "query"

C26_Witness ==
    /\ cmd.name = "generate"
    /\ cmd.category = <<"W">>
    /\ cmd.author = <<"b">>
    /\ \E r \in store : r.category = <<"w">>
    /\ \A r \in store : r.author # <<"b">>
    /\ out = <<CategoryAuthorNotFound(<<"w">>, <<"b">>), NoQuotesGenerated>>
    /\ error_log = out


(***************************************************************************)
(* C27: re-importing, after a successful import, the same file with its    *)
(* records reordered does not do what re-importing the file unchanged      *)
(* does: some record that the unchanged file has skipped is inserted, or   *)
(* the ids found existing are other ones.                                  *)
(***************************************************************************)
C27_ReorderChangesOutcome ==
    [][(/\ cmd.name = "none"
        /\ cmd.previous # NoFile
        /\ cmd'.name = "import_quotes"
        /\ cmd'.file # cmd.previous) =>
        \/ no_data' > 0
        \/ store' # store
        \/ existing_ids' # 1..Len(record_list')]_vars

\* C27 as the code has it: re-importing, after a successful import, the same
\* file with the records of its categories reordered does what re-importing
\* the file unchanged does: every positional id is found in the store, every
\* record is skipped, nothing is inserted and a count of 0 is reported.
C27_ReorderChangesNothing ==
    [][(/\ cmd.name = "none"
        /\ cmd.previous # NoFile
        /\ cmd'.name = "import_quotes"
        /\ cmd'.file # cmd.previous
        /\ cmd'.file.content \in Reorderings(cmd.previous.content)) =>
        /\ existing_ids' = 1..Len(record_list')
        /\ no_data' = 0
        /\ store' = store
        /\ out' = <<ImportReport(0, cmd'.file)>>]_vars

C27_Witness ==
    /\ cmd.name = "import_quotes"
    /\ cmd.previous # NoFile
    /\ cmd.file # cmd.previous
    /\ WellFormed(cmd.file.content)
    /\ Len(record_list) = 2
    /\ DictGet(record_list[1], AUTHOR) # DictGet(record_list[2], AUTHOR)
    /\ no_data = 0
    /\ Succeeded


(***************************************************************************)
(* C28: after every successful import of a batch of n records, whatever    *)
(* the store held, the store has a row under each id 1..n; hence an import *)
(* of a batch of at most as many records as such ids are in the store,     *)
(* whatever the records are, inserts nothing and reports 0.                *)
(***************************************************************************)
C28_ImportFillsIdsUpToN ==
    [][cmd'.name = "import_quotes" =>
        /\ Succeeded' => \A i \in 1..Len(record_list') : \E r \in store' : r.id = i
        /\ (/\ LoadError(cmd'.file) = ""
            /\ \A i \in 1..Len(record_list') : \E r \in store : r.id = i) =>
            /\ store' = store
            /\ no_data' = 0
            /\ out' = <<ImportReport(0, cmd'.file)>>]_vars

C28_Witness ==
    /\ cmd.name = "import_quotes"
    /\ Succeeded
    /\ Len(record_list) = 1
    /\ Cardinality(store) = 2
    /\ no_data = 0
    /\ cmd.file.content \in Contents
    /\ \A r \in store : r.author # DictGet(record_list[1], AUTHOR)


(***************************************************************************)
(* C29: the loader loses no record: what load_data returns holds as many   *)
(* records as the file, also when two category keys of the file differ     *)
(* only in letter case.                                                    *)
(***************************************************************************)
C29_LoaderKeepsEveryRecord ==
    (cmd.name = "load_data" /\ returned.raised = "") =>
        /\ CountRecords(returned.value) = CountRecords(cmd.file.content)
        /\ Len(Flatten(returned.value)) = CountRecords(cmd.file.content)


(***************************************************************************)
(* C30: a not-found or no-quotes condition is a normal result: for every   *)
(* store and every pair of filters generate and list_quotes have an        *)
(* outcome, and every outcome has echoed a structured result (a status of  *)
(* success or error), has opened and closed its session, and has left no   *)
(* exception uncaught.                                                     *)
(***************************************************************************)
C30_ReadCommandsEndNormally ==
    /\ cmd.name \in {"generate", "list_quotes"} =>
        /\ out # <<>>
        /\ \A i \in 1..Len(out) : out[i].status \in {"success", "error"}
        /\ \E i, j \in 1..Len(trace) :
            /\ i < j
            /\ trace[i] = "open"
            /\ trace[j] = "close"
            /\ \A k \in 1..Len(trace) : trace[k] = "open" => k = i
        /\ trace[Len(trace)] # "raise"
        /\ \A i \in 1..Len(trace) :
            trace[i] = "raise" => SubSeq(trace, i + 1, Len(trace)) = <<"echo", "error">>
    /\ cmd = NoCmd =>
        \A category \in Categories \cup {None}, author \in Authors \cup {None} :
            /\ ENABLED (GenerateFound(category, author) \/ GenerateEmpty(category, author))
            /\ ENABLED (ListFound(category, author) \/ ListRaises(category, author))

C30_Witness ==
    /\ cmd.name = "list_quotes"
    /\ store # {}
    /\ Given(cmd.category)
    /\ Given(cmd.author)
    /\ quotes = {}
    /\ out = <<DbError("IndexError")>>
    /\ trace = <<"open", "query", "choices", "close", "raise", "echo", "error">>

=============================================================================
